---- MODULE Spec2Model ----
(***************************************************************************)
(* Model of roax.postgresql.Database: a psycopg2 ThreadedConnectionPool    *)
(* plus a threading.local holding, per thread, the connection in use and   *)
(* the nesting count of open connect() scopes.  Database.connect() is a    *)
(* generator context manager; entering it is one action (Connect), leaving *)
(* it is one action (ExitScope), and a statement run in its body is one    *)
(* action (Insert).  The database is a set of committed rows plus, per     *)
(* connection, the rows inserted by the transaction in progress.           *)
(* The codecs of the module (_JSONCodec, _TextCodec, _PassCodec,           *)
(* _BytesCodec), the registry _codecs and Table.__init__ are modelled as    *)
(* operators, applied by the actions of a second specification, SpecCodec.  *)
(***************************************************************************)
EXTENDS Integers, FiniteSets, Sequences

\* ---- bounds of the model ----
NumThreads == 3
MaxDepth == 3
NumRows == 2
\* values given to the codecs: integers -MaxInt..MaxInt, collections of at
\* most MaxLen elements
MaxInt == 1
MaxLen == 2

\* ---- parameters of the program ----
\* maxconn argument of Database.__init__, handed to ThreadedConnectionPool
maxconn == 2

Threads == 1..NumThreads
Conns == 1..maxconn
Rows == 1..NumRows

\* absence of a connection: the attribute self.local.connection is not set
\* (reading it raises AttributeError), the pool holds nothing under a key
None == 0
\* no exception
NoError == "None"

\* errors a scope body may raise, and the errors of the driver
BodyErrors == {"RuntimeError", "ValueError"}
CommitError == "CommitError"
RollbackError == "RollbackError"
PoolError == "PoolError"
\* the error of a statement executed outside any scope
NoActiveConnection == "NoActiveConnection"

VARIABLES
    local_connection,  \* self.local.connection, per thread (None: attribute absent)
    local_count,       \* self.local.count, per thread
    pool_used,         \* the pool's _used map: key (thread ident) -> connection
    frames,            \* per thread, the open connect() scopes, outermost first,
                       \* each with the connection it yielded and the inserts made
                       \* in it (those of its closed inner scopes included), each
                       \* insert with the depth it was made at
    committed,         \* rows committed to the table
    pending,           \* per connection, rows inserted and not yet committed
    issued,            \* row keys already used by an insert (keys are fresh)
    last,              \* what the latest operation did and returned, and for which thread
    registry,          \* the module-level dict _codecs: schema type -> codec
    table,             \* the Table constructed last: the codecs argument it was
                       \* given and the codecs it ended up with
    trip               \* the value encoded and decoded last, with each step's result

dbVars == <<local_connection, local_count, pool_used, frames,
           committed, pending, issued, last>>
codecVars == <<registry, table, trip>>
vars == <<dbVars, codecVars>>

NoOp ==
    [op |-> "none", thread |-> None, depthBefore |-> 0, conn |-> None, bodyErr |-> NoError,
     getconns |-> 0, exhausted |-> FALSE,
     commits |-> 0, commitRaised |-> FALSE,
     rollbacks |-> 0, rollbackRaised |-> FALSE,
     putconns |-> 0, exc |-> NoError, context |-> NoError, rows |-> {},
     prev |-> "none"]

\* ---------------------------------------------------------------------
\* codecs
\* ---------------------------------------------------------------------

\* the four codec objects of the module
_pass == "_pass"
_json == "_json"
_bytes == "_bytes"
_text == "_text"

\* the registry: schema type -> codec
_codecs ==
    [ty \in {"dict", "list", "set", "int", "float", "bool", "bytes", "date",
             "datetime", "uuid"} |->
        CASE ty \in {"dict", "list", "set"} -> _json
          [] ty \in {"int", "float", "bool", "date", "datetime"} -> _pass
          [] ty = "bytes" -> _bytes
          [] ty = "uuid" -> _text]

\* values are tagged with what they are: a value of a schema type, or one
\* of the forms a value takes on its way to the database and back
Val(tag, v) == [tag |-> tag, v |-> v]
\* the outcome of a decode that raises
Raised == Val("error", <<>>)
Same(a, b) == a.tag = b.tag /\ a.v = b.v

Ints == (0 - MaxInt)..MaxInt
SeqsOf(S) == UNION {[1..n -> S] : n \in 0..MaxLen}

\* the values valid for a schema type (a dict has the one property "a", an
\* integer; lists and sets hold integers)
Values(ty) ==
    CASE ty = "dict" -> {Val(ty, [a |-> n]) : n \in Ints}
      [] ty = "list" -> {Val(ty, q) : q \in SeqsOf(Ints)}
      [] ty = "set" -> {Val(ty, S) : S \in {X \in SUBSET Ints : Cardinality(X) <= MaxLen}}
      [] ty = "bool" -> {Val(ty, b) : b \in BOOLEAN}
      [] ty = "bytes" -> {Val(ty, q) : q \in SeqsOf(0..MaxInt)}
      [] OTHER -> {Val(ty, n) : n \in Ints}

\* the elements of a set of integers in increasing order
Sorted(S) ==
    CHOOSE q \in [1..Cardinality(S) -> S] :
        \A i, j \in 1..Cardinality(S) : i < j => q[i] < q[j]

\* schema.json_encode(value): the JSON structure of a dict, list or set
SchemaJsonEncode(ty, value) ==
    CASE ty = "dict" -> Val("object", value.v)
      [] ty = "list" -> Val("array", value.v)
      [] ty = "set" -> Val("array", Sorted(value.v))

\* schema.json_decode(value): the value of a JSON structure; it raises on
\* anything that is not the structure the schema expects (text included)
SchemaJsonDecode(ty, x) ==
    CASE ty = "dict" -> IF x.tag = "object" THEN Val(ty, x.v) ELSE Raised
      [] ty = "list" -> IF x.tag = "array" THEN Val(ty, x.v) ELSE Raised
      [] ty = "set" ->
           IF x.tag = "array"
           THEN IF \A i, j \in DOMAIN x.v : x.v[i] = x.v[j] => i = j
                THEN Val(ty, {x.v[i] : i \in DOMAIN x.v}) ELSE Raised
           ELSE Raised

\* json.dumps(structure): JSON text; json.loads is its inverse
JsonDumps(x) == Val("jsontext", x)
JsonLoads(x) == x.v

\* schema.str_encode(value) / schema.str_decode(text) of a uuid
SchemaStrEncode(ty, value) == Val("text", value.v)
SchemaStrDecode(ty, x) == IF x.tag = "text" THEN Val(ty, x.v) ELSE Raised

\* bytes(value): the bytes of a bytes object or of the buffer the driver
\* returns for a bytea column
BytesOf(x) == IF x.tag \in {"bytes", "memoryview"} THEN Val("bytes", x.v) ELSE Raised

\* codec.encode(schema, value)
Encode(codec, ty, value) ==
    CASE codec = _json -> JsonDumps(SchemaJsonEncode(ty, value))
      [] codec = _text -> SchemaStrEncode(ty, value)
      [] codec = _pass -> value
      [] codec = _bytes -> value

\* a JSON codec whose decode hands the structure back as it came
DecodePassesJson(codec, ty, x) ==
    CASE codec = _json -> x
      [] codec = _text -> SchemaStrDecode(ty, x)
      [] codec = _pass -> x
      [] codec = _bytes -> BytesOf(x)

\* codec.decode(schema, value)
Decode(codec, ty, x) ==
    CASE codec = _json -> SchemaJsonDecode(ty, x)
      [] codec = _text -> SchemaStrDecode(ty, x)
      [] codec = _pass -> x
      [] codec = _bytes -> BytesOf(x)

\* what decode is handed: the output of encode as it is ("direct"), or,
\* for JSON text, the structure json.loads makes of it ("loads")
Delivered(via, x) ==
    IF via = "loads" /\ x.tag = "jsontext" THEN JsonLoads(x) ELSE x

\* no value encoded yet
NoTrip == [ty |-> "none", via |-> "none", value |-> Raised, wire |-> Raised,
           back |-> Raised]

\* Table.__init__: the codecs handed to db.Table are the registry with the
\* codecs argument laid over it, in a new dict
MergedCodecs(reg, codecs) ==
    [ty \in DOMAIN reg \cup DOMAIN codecs |->
        IF ty \in DOMAIN codecs THEN codecs[ty] ELSE reg[ty]]

\* the registry after a Table was constructed: the merge does not touch it
RegistryAfterUpdate(reg, codecs) == MergedCodecs(reg, codecs)
RegistryAfterTable(reg, codecs) == reg

\* the codecs argument of Table.__init__ when it is not given (None)
NoCodecs == [ty \in {} |-> _pass]

\* no Table constructed yet
NoTable == [built |-> FALSE, given |-> NoCodecs, codecs |-> NoCodecs,
            earlier |-> FALSE]

Init ==
    /\ local_connection = [t \in Threads |-> None]
    /\ local_count = [t \in Threads |-> 0]
    /\ pool_used = [t \in Threads |-> None]
    /\ frames = [t \in Threads |-> <<>>]
    /\ committed = {}
    /\ pending = [c \in Conns |-> {}]
    /\ issued = {}
    /\ last = NoOp
    /\ registry = _codecs
    /\ table = NoTable
    /\ trip = NoTrip

\* ---------------------------------------------------------------------
\* connect(): entry
\* ---------------------------------------------------------------------

\* `connection = self.local.connection` succeeds (no AttributeError)
HasConnection(t) == local_connection[t] # None

\* connections the pool can hand out: those no key holds
AvailableIgnoringUsed == Conns
Available == Conns \ {pool_used[k] : k \in Threads}

\* self.local.count += 1
NestedCount(cnt) == cnt + 1

\* `connection = self.local.connection`: what a nested scope yields
YieldedNestedFromPool(t) ==
    CHOOSE c \in Conns : c # local_connection[t] \/ Conns = {local_connection[t]}
YieldedNested(t) == local_connection[t]

\* nested entry: the thread already has a connection
ConnectNested(t) ==
    /\ HasConnection(t)
    /\ local_count[t] < MaxDepth
    /\ local_count' = [local_count EXCEPT ![t] = NestedCount(local_count[t])]
    /\ frames' = [frames EXCEPT ![t] =
                    Append(@, [conn |-> YieldedNested(t), rows |-> {}])]
    /\ last' =
                  [NoOp EXCEPT !.op = "enter", !.thread = t,
                               !.depthBefore = local_count[t],
                               !.conn = YieldedNested(t)]
    /\ UNCHANGED <<local_connection, pool_used, committed, pending, issued>>
    /\ UNCHANGED codecVars

\* pool.getconn(key): the connection already held under the key if there is
\* one, else the first connection the pool has free
Getconn(key) ==
    IF pool_used[key] # None THEN pool_used[key]
    ELSE CHOOSE c \in Available : \A o \in Available : c <= o

\* how the outermost scope of thread t ended, when its exit was the latest
\* operation: "committed", "rolledback" (commit not called, or it raised),
\* or "none" when the latest operation was something else
PrevOutcome(t) ==
    IF last.op = "exit" /\ last.thread = t /\ last.depthBefore = 1
    THEN IF last.commits = 1 /\ ~last.commitRaised THEN "committed"
         ELSE "rolledback"
    ELSE "none"

\* outermost entry: reading self.local.connection raises AttributeError,
\* pool.getconn(key=ident) hands out a connection, the count starts at 1
ConnectOutermost(t) ==
    /\ ~HasConnection(t)
    /\ pool_used[t] # None \/ Available # {}
    /\ LET c == Getconn(t)
       IN /\ pool_used' = [pool_used EXCEPT ![t] = c]
          /\ local_connection' = [local_connection EXCEPT ![t] = c]
          /\ local_count' = [local_count EXCEPT ![t] = 1]
          /\ frames' = [frames EXCEPT ![t] = <<[conn |-> c, rows |-> {}]>>]
          /\ last' =
                [NoOp EXCEPT !.op = "enter", !.thread = t, !.depthBefore = 0,
                             !.conn = c, !.getconns = 1,
                             !.prev = PrevOutcome(t)]
    /\ UNCHANGED <<committed, pending, issued>>
    /\ UNCHANGED codecVars

\* a getconn that waits until a connection is free instead of raising
ConnectWaits(t) ==
    /\ ~HasConnection(t)
    /\ pool_used[t] = None
    /\ Available # {}
    /\ UNCHANGED vars

\* an entry that counts the scope before it asks the pool
ConnectExhaustedHalfOpen(t) ==
    /\ ~HasConnection(t)
    /\ pool_used[t] = None
    /\ Available = {}
    /\ local_count[t] = 0
    /\ local_count' = [local_count EXCEPT ![t] = 1]
    /\ last' =
                  [NoOp EXCEPT !.op = "enter", !.thread = t, !.depthBefore = 0,
                               !.getconns = 1, !.exhausted = TRUE,
                               !.exc = PoolError]
    /\ UNCHANGED <<local_connection, pool_used, frames, committed, pending,
                   issued>>
    /\ UNCHANGED codecVars

\* outermost entry with the pool exhausted: getconn raises PoolError, which
\* leaves connect() before anything is assigned and before the body runs
ConnectExhausted(t) ==
    /\ ~HasConnection(t)
    /\ pool_used[t] = None
    /\ Available = {}
    /\ last' =
                  [NoOp EXCEPT !.op = "enter", !.thread = t, !.depthBefore = 0,
                               !.getconns = 1, !.exhausted = TRUE,
                               !.exc = PoolError]
    /\ UNCHANGED <<local_connection, local_count, pool_used, frames,
                   committed, pending, issued>>
    /\ UNCHANGED codecVars

Connect(t) == ConnectNested(t) \/ ConnectOutermost(t) \/ ConnectExhausted(t)

\* ---------------------------------------------------------------------
\* statements run by the body of a scope, on the thread's connection
\* ---------------------------------------------------------------------

\* rows a statement of thread t sees: committed rows and its own inserts
Visible(t) ==
    committed \cup (IF HasConnection(t) THEN pending[local_connection[t]] ELSE {})

\* table.insert(row) with a fresh key (the next unused one), inside the
\* innermost open scope
Insert(t, r) ==
    /\ local_count[t] > 0
    /\ r \notin issued
    /\ \A q \in Rows : q < r => q \in issued
    /\ LET c == frames[t][Len(frames[t])].conn
           d == Len(frames[t])
       IN /\ pending' = [pending EXCEPT ![c] = @ \cup {r}]
          /\ frames' = [frames EXCEPT ![t][d].rows =
                           @ \cup {[row |-> r, depth |-> d]}]
          /\ last' =
                        [NoOp EXCEPT !.op = "insert", !.thread = t, !.depthBefore = d,
                                     !.conn = c,
                                     !.rows = {[row |-> r, depth |-> d]}]
    /\ issued' = issued \cup {r}
    /\ UNCHANGED <<local_connection, local_count, pool_used, committed>>
    /\ UNCHANGED codecVars

\* what execute(statement) does for a thread whose depth is 0: it fails with
\* NoActiveConnection, takes no connection and does not run the statement
ExecuteOutsideAutocommit(t) ==
    [exc |-> NoError, ran |-> TRUE, getconns |-> 1]
ExecuteOutsideOutcome(t) ==
    [exc |-> NoActiveConnection, ran |-> FALSE, getconns |-> 0]

\* table.insert(row) with a fresh key, by a thread that has no scope open
ExecuteOutside(t, r) ==
    /\ local_count[t] = 0
    /\ r \notin issued
    /\ \A q \in Rows : q < r => q \in issued
    /\ LET o == ExecuteOutsideOutcome(t)
       IN /\ committed' = IF o.ran THEN committed \cup {r} ELSE committed
          /\ issued' = IF o.ran THEN issued \cup {r} ELSE issued
          /\ last' =
                [NoOp EXCEPT !.op = "execute", !.thread = t,
                             !.getconns = o.getconns, !.exc = o.exc,
                             !.rows = {[row |-> r, depth |-> 0]}]
    /\ UNCHANGED <<local_connection, local_count, pool_used, frames, pending>>
    /\ UNCHANGED codecVars

\* ---------------------------------------------------------------------
\* connect(): exit (the code after `yield connection`)
\* ---------------------------------------------------------------------

\* `if self.local.count == 1: connection.commit()`, reached only when the
\* body returned normally
CommitCalledAlways(cnt, bodyErr) == cnt = 1
CommitCalled(cnt, bodyErr) == bodyErr = NoError /\ cnt = 1

\* the exception the `except:` clause handles: the one the body raised,
\* or the one commit() raised
HandlingBodyOnly(bodyErr, commitRaised) == bodyErr
Handling(bodyErr, commitRaised) ==
    IF bodyErr # NoError THEN bodyErr
    ELSE IF commitRaised THEN CommitError ELSE NoError

\* `if self.local.count == 1: connection.rollback()` in the except clause
RollbackCalledNever(cnt, handling) == FALSE
RollbackCalledNested(cnt, handling) == handling # NoError
RollbackCalled(cnt, handling) == handling # NoError /\ cnt = 1

\* what leaves the except clause: `raise` re-raises the handled exception;
\* an exception of rollback() replaces it and carries it as __context__
PropagatedSwallowed(handling, rollbackRaised) ==
    [exc |-> NoError, context |-> NoError]
PropagatedOriginalOnly(handling, rollbackRaised) ==
    [exc |-> handling, context |-> NoError]
Propagated(handling, rollbackRaised) ==
    IF rollbackRaised THEN [exc |-> RollbackError, context |-> handling]
    ELSE [exc |-> handling, context |-> NoError]

\* the finally clause runs on every path
FinallyRunsOnReturnOnly(exc) == exc = NoError
FinallyRuns(exc) == TRUE

\* `self.local.count -= 1`
DecrementedCount(cnt) == cnt - 1

\* `if not self.local.count:` the connection is released
ReleasedAlways(cnt) == TRUE
ReleasedNever(cnt) == FALSE
Released(cnt) == cnt = 0

\* everything the exit of a scope computes, from the count on entry to the
\* exit, the error the body raised and the outcomes of commit and rollback
ExitOutcome(cnt, bodyErr, commitOk, rollbackOk) ==
    LET commits == CommitCalled(cnt, bodyErr)
        commitRaised == commits /\ ~commitOk
        handling == Handling(bodyErr, commitRaised)
        rollbacks == RollbackCalled(cnt, handling)
        rollbackRaised == rollbacks /\ ~rollbackOk
        prop == Propagated(handling, rollbackRaised)
        fin == FinallyRuns(prop.exc)
        newcnt == IF fin THEN DecrementedCount(cnt) ELSE cnt
    IN [commits |-> commits, commitRaised |-> commitRaised,
        committedOk |-> commits /\ commitOk,
        rollbacks |-> rollbacks, rollbackRaised |-> rollbackRaised,
        rolledOk |-> rollbacks /\ rollbackOk,
        exc |-> prop.exc, context |-> prop.context,
        count |-> newcnt, released |-> fin /\ Released(newcnt)]

ExitScope(t, bodyErr, commitOk, rollbackOk) ==
    /\ local_count[t] > 0
    /\ LET cnt == local_count[t]
           d == Len(frames[t])
           c == frames[t][d].conn
           o == ExitOutcome(cnt, bodyErr, commitOk, rollbackOk)
           afterCommit == IF o.committedOk THEN {} ELSE pending[c]
           afterRollback == IF o.rolledOk THEN {} ELSE afterCommit
           \* pool.putconn rolls back or closes a connection that is not idle
           afterPut == IF o.released THEN {} ELSE afterRollback
       IN /\ committed' = IF o.committedOk THEN committed \cup pending[c]
                                           ELSE committed
          /\ pending' = [pending EXCEPT ![c] = afterPut]
          /\ local_count' = [local_count EXCEPT ![t] = o.count]
          /\ local_connection' =
                 [local_connection EXCEPT ![t] = IF o.released THEN None ELSE @]
          /\ pool_used' = [pool_used EXCEPT ![t] = IF o.released THEN None ELSE @]
          /\ frames' = [frames EXCEPT ![t] =
                 IF d = 1 THEN <<>>
                 ELSE [SubSeq(@, 1, d - 1) EXCEPT
                          ![d - 1].rows = @ \cup frames[t][d].rows]]
          /\ last' =
                 [NoOp EXCEPT !.op = "exit", !.thread = t,
                              !.depthBefore = d, !.conn = c,
                              !.bodyErr = bodyErr,
                              !.commits = IF o.commits THEN 1 ELSE 0,
                              !.commitRaised = o.commitRaised,
                              !.rollbacks = IF o.rollbacks THEN 1 ELSE 0,
                              !.rollbackRaised = o.rollbackRaised,
                              !.putconns = IF o.released THEN 1 ELSE 0,
                              !.exc = o.exc, !.context = o.context,
                              !.rows = frames[t][d].rows]
    /\ UNCHANGED issued
    /\ UNCHANGED codecVars

\* outcomes of a call to the driver: it returns (TRUE) or raises (FALSE);
\* a call that is not made at this depth has no outcome to choose
Outcomes(t) == IF local_count[t] = 1 THEN BOOLEAN ELSE {TRUE}

\* the body returns
ExitNormal(t) ==
    \E commitOk \in Outcomes(t) :
        \E rollbackOk \in (IF commitOk THEN {TRUE} ELSE BOOLEAN) :
            ExitScope(t, NoError, commitOk, rollbackOk)

\* the body raises
ExitError(t) ==
    \E e \in BodyErrors, rollbackOk \in Outcomes(t) :
        ExitScope(t, e, TRUE, rollbackOk)

\* ---------------------------------------------------------------------
\* Properties
\* ---------------------------------------------------------------------

\* the latest operation was the entry of a scope by a thread that already
\* had one open / the exit of a nested scope / the exit of an outermost scope
NestedEntry == last.op = "enter" /\ last.depthBefore > 0
NestedExit == last.op = "exit" /\ last.depthBefore > 1
OutermostExit == last.op = "exit" /\ last.depthBefore = 1

RowsOf(tagged) == {x.row : x \in tagged}
AllPending == UNION {pending[c] : c \in Conns}

\* C1. Reentrant sharing: a scope entered by a thread that already has an
\* open scope (at any depth) yields the connection the outermost scope
\* yielded, the depth grows by one, and nothing is checked out of the pool.
C1_ReentrantSharing ==
    NestedEntry =>
        LET t == last.thread
        IN /\ last.exc = NoError
           /\ Len(frames[t]) = last.depthBefore + 1
           /\ local_count[t] = last.depthBefore + 1
           /\ \A i \in 1..Len(frames[t]) : frames[t][i].conn = frames[t][1].conn
           /\ last.conn = frames[t][1].conn
           /\ local_connection[t] = last.conn
           /\ pool_used[t] = last.conn
           /\ last.getconns = 0
           /\ \A u \in Threads \ {t} : pool_used[u] # last.conn

C1_Witness ==
    /\ NestedEntry
    /\ last.depthBefore = 2
    /\ Len(frames[last.thread]) = 3
    /\ frames[last.thread][3].conn = frames[last.thread][1].conn

C3_ExactlyOneFinalization ==
    OutermostExit =>
        /\ last.bodyErr = NoError => last.commits = 1 /\ last.rollbacks = 0
        /\ last.bodyErr # NoError => last.commits = 0 /\ last.rollbacks = 1
        /\ last.putconns = 1

\* C3 as amended. The exit of an outermost scope calls commit once if the
\* body returned and rollback once if the body raised; it calls both, the
\* rollback after the commit, exactly when the commit itself raised; it
\* never calls neither; the rows of the scope are committed exactly when
\* the commit succeeded; and the connection then returns to the pool.
C3_FinalizationAtOutermost ==
    OutermostExit =>
        /\ last.bodyErr = NoError =>
              /\ last.commits = 1
              /\ last.rollbacks = (IF last.commitRaised THEN 1 ELSE 0)
        /\ last.bodyErr # NoError => last.commits = 0 /\ last.rollbacks = 1
        /\ last.commits + last.rollbacks >= 1
        /\ IF last.commits = 1 /\ ~last.commitRaised
           THEN RowsOf(last.rows) \subseteq committed
           ELSE RowsOf(last.rows) \cap committed = {}
        /\ pending[last.conn] = {}
        /\ last.putconns = 1
        /\ pool_used[last.thread] = None

C3_Witness ==
    /\ OutermostExit
    /\ last.bodyErr = NoError
    /\ last.commitRaised
    /\ last.commits = 1
    /\ last.rollbacks = 1
    /\ last.rows # {}

\* a row that was inserted and is neither committed nor part of a
\* transaction in progress: no transaction sees it
Discarded(r) == r \in issued /\ r \notin committed /\ r \notin AllPending

\* C4. Rollback of the whole outermost scope: once an outermost scope has
\* exited with an error, every row inserted inside it, at whatever depth
\* and whatever the way the inner scopes exited, is absent from the table
\* and from every transaction, and stays absent.
C4_RollbackWholeScope ==
    /\ [](OutermostExit /\ last.bodyErr # NoError =>
             \A r \in RowsOf(last.rows) : Discarded(r))
    /\ [][\A r \in Rows : Discarded(r) => Discarded(r)']_vars

C4_Witness ==
    /\ OutermostExit
    /\ last.bodyErr # NoError
    /\ \E x \in last.rows : x.depth = 3 /\ Discarded(x.row)

\* C5 as stated. Nested transaction failure is contained: when a nested
\* scope exits with an error, the rows inserted inside it are no longer
\* visible to the enclosing scope, while the rows the enclosing scopes
\* inserted before remain visible to it.
C5_NestedFailureContained ==
    NestedExit /\ last.bodyErr # NoError =>
        LET t == last.thread
            outer == UNION {RowsOf(frames[t][i].rows) : i \in 1..Len(frames[t])}
        IN /\ RowsOf(last.rows) \cap Visible(t) = {}
           /\ (outer \ RowsOf(last.rows)) \subseteq Visible(t)


\* connections a thread holds: in its thread-local state, under its key in
\* the pool, or yielded to one of its open scopes
HeldBy(t) ==
    ({local_connection[t], pool_used[t]} \ {None})
        \cup {frames[t][i].conn : i \in 1..Len(frames[t])}

\* C6. Exclusive ownership across contexts: no connection is held by two
\* threads at the same time, and a thread that commits, rolls back or
\* returns a connection to the pool does so to a connection that no other
\* thread holds.
C6_ExclusiveOwnership ==
    /\ \A t \in Threads : \A u \in Threads \ {t} : HeldBy(t) \cap HeldBy(u) = {}
    /\ last.op = "exit" /\ last.commits + last.rollbacks + last.putconns > 0 =>
          \A u \in Threads \ {last.thread} : last.conn \notin HeldBy(u)

C6_Witness ==
    /\ last.op = "exit"
    /\ last.putconns = 1
    /\ \E u \in Threads \ {last.thread} :
          /\ local_count[u] > 1
          /\ pending[local_connection[u]] # {}
    /\ \E u \in Threads : last.conn \notin HeldBy(u)

\* C7. Unconditional release: whichever way an outermost scope exits (the
\* body returns, the body raises, commit raises, rollback raises), the
\* thread's depth is 0 afterwards, its connection attribute is cleared and
\* the connection has been returned to the pool, once.
C7_UnconditionalRelease ==
    OutermostExit =>
        LET t == last.thread
        IN /\ local_count[t] = 0
           /\ local_connection[t] = None
           /\ pool_used[t] = None
           /\ last.putconns = 1
           /\ last.conn \in Available

C7_Witness ==
    /\ OutermostExit
    /\ last.rollbackRaised
    /\ last.commitRaised
    /\ local_count[last.thread] = 0
    /\ last.conn \in Available

C9_OriginalErrorPropagated ==
    OutermostExit /\ last.bodyErr # NoError /\ ~last.rollbackRaised =>
        /\ last.rollbacks = 1
        /\ last.exc = last.bodyErr
        /\ last.context = NoError
        /\ \A r \in RowsOf(last.rows) : Discarded(r)

C9_Witness ==
    /\ OutermostExit
    /\ last.bodyErr = "ValueError"
    /\ last.exc = "ValueError"
    /\ last.rollbacks = 1
    /\ ~last.rollbackRaised
    /\ last.rows # {}

\* C10. Rollback failure takes precedence: when the body of an outermost
\* scope raises and the rollback then fails, the caller receives the
\* rollback's error, and the error of the body travels with it (as its
\* context) instead of being lost.
C10_RollbackFailurePrecedence ==
    OutermostExit /\ last.bodyErr # NoError /\ last.rollbackRaised =>
        /\ last.exc = RollbackError
        /\ last.context = last.bodyErr

C10_Witness ==
    /\ OutermostExit
    /\ last.bodyErr = "RuntimeError"
    /\ last.rollbackRaised
    /\ last.exc = RollbackError
    /\ last.context = "RuntimeError"


\* C11. No statement outside a scope: a statement executed by a thread
\* whose depth is 0 fails with NoActiveConnection; the thread acquires no
\* connection and the statement is not run (its row is nowhere).
C11_NoStatementOutsideScope ==
    last.op = "execute" =>
        LET t == last.thread
        IN /\ last.exc = NoActiveConnection
           /\ last.getconns = 0
           /\ local_count[t] = 0
           /\ HeldBy(t) = {}
           /\ \A r \in RowsOf(last.rows) :
                 r \notin issued /\ r \notin committed /\ r \notin AllPending

C11_Witness ==
    /\ last.op = "execute"
    /\ last.exc = NoActiveConnection
    /\ local_count[last.thread] = 0
    /\ Available # {}
    /\ \E u \in Threads : local_count[u] > 0


\* C12 as stated. Concurrent transactions all complete with their own
\* results: every thread that opens a scope gets one, without error,
\* whatever the other threads are doing; its statement runs on its own
\* connection, which no other thread holds; and its scope, when the body
\* returns and the commit succeeds, ends without error.
C12_ConcurrentTransactionsComplete ==
    /\ last.op = "enter" => last.exc = NoError
    /\ last.op = "insert" =>
          /\ last.conn = local_connection[last.thread]
          /\ RowsOf(last.rows) \subseteq pending[last.conn]
          /\ \A u \in Threads \ {last.thread} : last.conn \notin HeldBy(u)
    /\ (OutermostExit /\ last.bodyErr = NoError /\ ~last.commitRaised) =>
          last.exc = NoError


\* C16. Depth/handle invariant: between operations, a thread's depth is
\* greater than 0 exactly when it has a connection, which is then the one
\* checked out of the pool under its key and yielded to each of its open
\* scopes; at depth 0 it holds no connection and nothing of the pool; the
\* depth is never negative.
C16_DepthHandleInvariant ==
    \A t \in Threads :
        /\ local_count[t] >= 0
        /\ local_count[t] > 0 <=> local_connection[t] # None
        /\ local_count[t] > 0 <=> pool_used[t] # None
        /\ local_count[t] > 0 =>
              /\ pool_used[t] = local_connection[t]
              /\ Len(frames[t]) = local_count[t]
              /\ HeldBy(t) = {local_connection[t]}
        /\ local_count[t] = 0 => HeldBy(t) = {}

C16_Witness ==
    \E t, u \in Threads :
        /\ local_count[t] = 3 /\ HeldBy(t) = {local_connection[t]}
        /\ local_count[u] = 0 /\ HeldBy(u) = {}
        /\ last.op = "exit" /\ last.thread = u /\ last.exc # NoError

\* connections checked out of the pool / threads with an open scope
CheckedOut == {pool_used[t] : t \in Threads} \ {None}
Active == {t \in Threads : local_count[t] > 0}

\* C17. Pool bound: the number of connections checked out never exceeds
\* maxconn and equals the number of threads whose depth is greater than 0,
\* whatever their depth.
C17_PoolBound ==
    /\ Cardinality(CheckedOut) <= maxconn
    /\ Cardinality(CheckedOut) = Cardinality(Active)
    /\ \A t \in Active : pool_used[t] \in Conns

C17_Witness ==
    /\ Cardinality(CheckedOut) = maxconn
    /\ Cardinality(Active) = maxconn
    /\ \E t \in Active : local_count[t] = 3
    /\ last.op = "enter" /\ last.exhausted

\* the latest operation was a successful entry by a thread at depth 0
FreshEntry == last.op = "enter" /\ last.depthBefore = 0 /\ last.exc = NoError

\* C18. Fresh scope after full unwind: an entry at depth 0, whether or not
\* the thread has had scopes before and however they ended, checks a
\* connection out of the pool, sets the depth to 1 and starts on a
\* connection with no statement pending; and what the exit of an outermost
\* scope commits is exactly the rows of that scope if its own commit
\* succeeded and nothing otherwise.
C18_FreshScopeAfterUnwind ==
    /\ [](FreshEntry =>
            LET t == last.thread
            IN /\ last.getconns = 1
               /\ last.conn \in Conns
               /\ local_count[t] = 1
               /\ local_connection[t] = last.conn
               /\ pool_used[t] = last.conn
               /\ frames[t] = <<[conn |-> last.conn, rows |-> {}]>>
               /\ pending[last.conn] = {})
    /\ [][OutermostExit' /\ last' # last =>
            /\ last'.commits = (IF last'.bodyErr = NoError THEN 1 ELSE 0)
            /\ committed' \ committed =
                  (IF last'.commits = 1 /\ ~last'.commitRaised
                   THEN RowsOf(last'.rows) ELSE {})
            /\ committed \subseteq committed']_vars

C18_Witness ==
    /\ FreshEntry
    /\ last.prev = "rolledback"
    /\ committed # {}
    /\ local_count[last.thread] = 1
    /\ pending[last.conn] = {}

\* C19. Commit failure handling: when the commit of an outermost normal
\* exit raises, a rollback is called on the same connection, an error
\* reaches the caller (the commit's, or the rollback's with the commit's
\* as its context), nothing of the scope is committed, and the connection
\* is returned to the pool with the depth back at 0.
C19_CommitFailureHandling ==
    OutermostExit /\ last.commitRaised =>
        LET t == last.thread
        IN /\ last.bodyErr = NoError
           /\ last.rollbacks = 1
           /\ last.exc # NoError
           /\ IF last.rollbackRaised
              THEN last.exc = RollbackError /\ last.context = CommitError
              ELSE last.exc = CommitError /\ last.context = NoError
           /\ RowsOf(last.rows) \cap committed = {}
           /\ last.putconns = 1
           /\ local_count[t] = 0
           /\ local_connection[t] = None
           /\ pool_used[t] = None

C19_Witness ==
    /\ OutermostExit
    /\ last.commitRaised
    /\ ~last.rollbackRaised
    /\ last.exc = CommitError
    /\ last.rows # {}
    /\ pool_used[last.thread] = None

\* the latest operation was an entry that the pool refused
FailedEntry == last.op = "enter" /\ last.exhausted

\* C20. Failed acquisition leaves the context idle: an entry that fails in
\* the pool ends with PoolError before the body runs; the step changes no
\* thread's connection or depth, nothing in the pool and no transaction;
\* no commit, rollback or return to the pool is made; and a thread at depth
\* 0 can enter, and then succeeds, whenever the pool has a connection free.
C20_FailedAcquisitionIdle ==
    /\ [](FailedEntry =>
            LET t == last.thread
            IN /\ last.exc = PoolError
               /\ last.commits = 0 /\ last.rollbacks = 0 /\ last.putconns = 0
               /\ local_count[t] = 0
               /\ local_connection[t] = None
               /\ frames[t] = <<>>
               /\ HeldBy(t) = {})
    /\ [][FailedEntry' /\ last' # last =>
            UNCHANGED <<local_connection, local_count, pool_used, frames,
                        committed, pending, issued>>]_vars
    /\ [](\A t \in Threads :
            local_count[t] = 0 /\ Available # {} =>
                /\ ENABLED ConnectOutermost(t)
                /\ ~ENABLED ConnectExhausted(t))

C20_Witness ==
    /\ FailedEntry
    /\ local_count[last.thread] = 0
    /\ \E u \in Threads \ {last.thread} :
          local_count[u] = 2 /\ pending[local_connection[u]] # {}
    /\ committed # {}


Next ==
    \E t \in Threads :
        \/ Connect(t)
        \/ \E r \in Rows : Insert(t, r)
        \/ \E r \in Rows : ExecuteOutside(t, r)
        \/ ExitNormal(t)
        \/ ExitError(t)

Spec == Init /\ [][Next]_vars

\* ---------------------------------------------------------------------
\* codec operations
\* ---------------------------------------------------------------------

\* the types a caller overrides (str has no default codec) and the codecs
\* a caller supplies
OverrideTypes == {"list", "uuid", "str"}
CallerCodecs == {"custom", _text}
CodecArguments == UNION {[D -> CallerCodecs] : D \in SUBSET OverrideTypes}

\* Table(name, schema, pk, codecs)
NewTable(codecs) ==
    /\ table' = [built |-> TRUE, given |-> codecs,
                 codecs |-> MergedCodecs(registry, codecs),
                 earlier |-> table.earlier
                             \/ (table.built /\ DOMAIN table.given # {})]
    /\ registry' = RegistryAfterTable(registry, codecs)
    /\ UNCHANGED trip
    /\ UNCHANGED dbVars

\* a value of a default type encoded by the type's default codec and
\* decoded again
RoundTrip(ty, value, via) ==
    LET codec == registry[ty]
        wire == Encode(codec, ty, value)
    IN  /\ trip' = [ty |-> ty, via |-> via, value |-> value, wire |-> wire,
                    back |-> Decode(codec, ty, Delivered(via, wire))]
        /\ UNCHANGED <<registry, table>>
        /\ UNCHANGED dbVars

CodecNext ==
    \/ \E codecs \in CodecArguments : NewTable(codecs)
    \/ \E ty \in DOMAIN _codecs : \E value \in Values(ty) :
          \E via \in {"direct", "loads"} : RoundTrip(ty, value, via)

SpecCodec == Init /\ [][CodecNext]_vars

C14_NativeArrays ==
    trip.ty \in {"list", "set"} => trip.wire.tag = "array"

\* C15: the registry stays what the module defined; a Table's codecs are
\* the caller's where the caller gave one and the default elsewhere; a
\* Table built without overrides has exactly the defaults, whatever was
\* built before it.
C15_OverridesMergedAtConstruction ==
    /\ registry = _codecs
    /\ table.built =>
          /\ DOMAIN table.codecs = DOMAIN _codecs \cup DOMAIN table.given
          /\ \A ty \in DOMAIN table.codecs :
                table.codecs[ty] = IF ty \in DOMAIN table.given
                                   THEN table.given[ty] ELSE _codecs[ty]
          /\ DOMAIN table.given = {} => table.codecs = _codecs

C15_Witness ==
    /\ table.built /\ table.earlier
    /\ DOMAIN table.given = {}
    /\ table.codecs = _codecs

====
